---- MODULE Spec2Model ----
(***************************************************************************)
(* Workflow Graph Studio (StreamGraph): the pipeline editor's state        *)
(* (App: nodes, edges), the text node's variable extraction and handles    *)
(* (TextNode / BaseNode), the local DAG validation (submit.js isDAG), the   *)
(* backend's documented is_dag, and a submission (handleSubmit,            *)
(* submitPipeline).                                                        *)
(*                                                                         *)
(* JavaScript strings are modelled as sequences of one-character strings,  *)
(* so that template-literal concatenation and the regular expression are   *)
(* computed rather than assumed.                                           *)
(***************************************************************************)
EXTENDS Integers, Sequences, FiniteSets, TLC

VARIABLES
    nodes,    \* App: the nodes array, with each node's component state
    edges,    \* App: the edges array
    clock,    \* the last value Date.now() returned
    events,   \* number of user gestures handled so far
    issued,   \* history: every node id handed out so far, in order
    run,      \* the local variables of one isDAG call
    isSubmitting,  \* App: the isSubmitting state cell
    call      \* the submitPipeline call of the last handleSubmit run

vars == <<nodes, edges, clock, events, issued, run, isSubmitting, call>>

-----------------------------------------------------------------------------
(* Bounds of the model *)

\* addNode is explored while the node list is shorter than this
MaxNodes == 5
\* onConnect is explored while the edge list is shorter than this
MaxEdges == 3
\* number of milliseconds the clock may advance
MaxTicks == 1
\* the earliest value Date.now() returns (any value above the initial ids '1'..'3')
ClockStart == 4
\* how many elements may carry selected = true at once
MaxSelected == 1
\* number of user gestures (clicks, key presses, edits, drags) of one session
MaxEvents == 4
\* isDAG as a function: node lists up to this length ...
MaxDagNodes == 3
\* ... and edge lists up to this length
MaxDagEdges == 3

-----------------------------------------------------------------------------
(* Strings *)

Lower == {"a","b","c","d","e","f","g","h","i","j","k","l","m",
          "n","o","p","q","r","s","t","u","v","w","x","y","z"}
Upper == {"A","B","C","D","E","F","G","H","I","J","K","L","M",
          "N","O","P","Q","R","S","T","U","V","W","X","Y","Z"}
DigitChars == <<"0","1","2","3","4","5","6","7","8","9">>
Digit == {DigitChars[k] : k \in 1..10}

\* `${n}` for a non-negative integer n: its decimal digits
RECURSIVE ToDigits(_)
ToDigits(n) ==
    IF n < 10 THEN <<DigitChars[n + 1]>>
    ELSE ToDigits(n \div 10) \o <<DigitChars[(n % 10) + 1]>>

Min(S) == CHOOSE x \in S : \A y \in S : x <= y

\* Array.prototype.includes
Includes(seq, x) == \E k \in 1..Len(seq) : seq[k] = x

-----------------------------------------------------------------------------
(* TextNode: variable extraction *)

\* a first-character class that lets a digit start a name: [a-zA-Z0-9_$]
IdentStartOrDigit == Lower \cup Upper \cup {"_", "$"} \cup Digit

\* [a-zA-Z_$]
IdentStart == Lower \cup Upper \cup {"_", "$"}
\* [a-zA-Z0-9_$]
IdentPart == IdentStart \cup Digit
\* \s (the members a textarea can hold)
WhiteSpace == {" ", "\t", "\n"}

\* the first index j >= i at which text leaves the class (Len+1 at the end):
\* what a greedy X* consumes from i
SkipClass(text, i, Class) ==
    CHOOSE j \in i..(Len(text) + 1) :
        /\ \A k \in i..(j - 1) : text[k] \in Class
        /\ j = Len(text) + 1 \/ text[j] \notin Class

\* one attempt of /\{\{\s*([a-zA-Z_$][a-zA-Z0-9_$]*)\s*\}\}/ anchored at i
\* (1-based).  The classes that follow one another are disjoint, so greedy
\* matching never has to backtrack to a shorter repetition.
MatchAt(text, i) ==
    LET n == Len(text)
        b == SkipClass(text, i + 2, WhiteSpace)
        c == SkipClass(text, b + 1, IdentPart)
        d == SkipClass(text, c, WhiteSpace)
    IN  IF /\ i + 1 <= n
           /\ text[i] = "{"
           /\ text[i + 1] = "{"
           /\ b <= n
           /\ text[b] \in IdentStart
           /\ d + 1 <= n
           /\ text[d] = "}"
           /\ text[d + 1] = "}"
        THEN [ok |-> TRUE, name |-> SubSeq(text, b, c - 1), end |-> d + 2]
        ELSE [ok |-> FALSE, name |-> <<>>, end |-> i]

\* the same loop without the foundVariables.includes test
RECURSIVE ExecLoopNoDedup(_, _, _)
ExecLoopNoDedup(text, from, foundVariables) ==
    LET starts == {i \in from..Len(text) : MatchAt(text, i).ok}
    IN  IF starts = {} THEN foundVariables
        ELSE LET match == MatchAt(text, Min(starts))
             IN  ExecLoopNoDedup(text, match.end, Append(foundVariables, match.name))

\* the while loop over variableRegex.exec(text): `from` is lastIndex + 1
RECURSIVE ExecLoop(_, _, _)
ExecLoop(text, from, foundVariables) ==
    LET starts == {i \in from..Len(text) : MatchAt(text, i).ok}
    IN  IF starts = {} THEN foundVariables
        ELSE LET match == MatchAt(text, Min(starts))
                 varName == match.name
             IN  ExecLoop(text, match.end,
                          IF ~Includes(foundVariables, varName)
                          THEN Append(foundVariables, varName)
                          ELSE foundVariables)

\* the body of the first useEffect of TextNode: the value given to setVariables
ExtractVariables(text) == ExecLoop(text, 1, <<>>)

-----------------------------------------------------------------------------
(* Handles rendered by the node components *)

Dash == <<"-">>
StrInput == <<"i","n","p","u","t">>
StrOutput == <<"o","u","t","p","u","t">>
TitleInput == <<"I","n","p","u","t">>
TitleOutput == <<"O","u","t","p","u","t">>
TitleInputPrefix == <<"I","n","p","u","t",":"," ">>
NoTitle == <<>>

\* one <Handle type=... id=... title=...>
Handle(type, id, title) == [type |-> type, id |-> id, title |-> title]

\* BaseNode's JSX: a target and a source handle, whatever the config is
BaseNodeHandles(id) ==
    << Handle("target", id \o Dash \o StrInput, NoTitle),
       Handle("source", id \o Dash \o StrOutput, NoTitle) >>

\* a TextNode that renders the default input handle unconditionally, before
\* the variable handles
TextNodeHandlesWithDefault(id, variables) ==
    << Handle("target", id \o Dash \o StrInput, TitleInput) >>
    \o [index \in 1..Len(variables) |->
           Handle("target", id \o Dash \o variables[index],
                  TitleInputPrefix \o variables[index])]
    \o << Handle("source", id \o Dash \o StrOutput, TitleOutput) >>

\* a TextNode that names each variable handle after its position in the list
\* (`${id}-${index}`) instead of after the variable
TextNodeHandlesByIndex(id, variables) ==
    (IF Len(variables) > 0
     THEN [index \in 1..Len(variables) |->
              Handle("target", id \o Dash \o ToDigits(index - 1),
                     TitleInputPrefix \o variables[index])]
     ELSE << Handle("target", id \o Dash \o StrInput, TitleInput) >>)
    \o << Handle("source", id \o Dash \o StrOutput, TitleOutput) >>

\* TextNode's JSX: one target handle per entry of variables, or the default
\* input handle when there is none, then the output handle
TextNodeHandles(id, variables) ==
    (IF Len(variables) > 0
     THEN [index \in 1..Len(variables) |->
              Handle("target", id \o Dash \o variables[index],
                     TitleInputPrefix \o variables[index])]
     ELSE << Handle("target", id \o Dash \o StrInput, TitleInput) >>)
    \o << Handle("source", id \o Dash \o StrOutput, TitleOutput) >>

\* the keys of nodeConfigs
nodeConfigs == {"input", "output", "llm", "transform", "filter"}

\* the keys of nodeTypes: text is TextNode, every config key is a BaseNode
nodeTypes == {"text"} \cup nodeConfigs

\* the handles the component registered for this node renders
RenderedHandles(node) ==
    IF node.type = "text"
    THEN TextNodeHandles(node.id, node.variables)
    ELSE BaseNodeHandles(node.id)

HandlesOfType(node, type) ==
    SelectSeq(RenderedHandles(node), LAMBDA h : h.type = type)

HandleIds(hs) == [k \in 1..Len(hs) |-> hs[k].id]

-----------------------------------------------------------------------------
(* submit.js: isDAG, one step at a time *)

EmptyMap == [x \in {} |-> 0]

\* order is history: the ids taken from the queue so far, in that order
IdleRun ==
    [pc |-> "idle", adjList |-> EmptyMap, inDegree |-> EmptyMap,
     queue |-> <<>>, count |-> 0, e |-> 0, result |-> FALSE, order |-> <<>>]

\* entry of isDAG: adjList = {}, inDegree = {}
StartRun == [IdleRun EXCEPT !.pc = "init"]

NodeIds(nds) == {nds[k].id : k \in 1..Len(nds)}

\* nodes.forEach(node => { adjList[node.id] = []; inDegree[node.id] = 0 })
Initialize(st, nds) ==
    [st EXCEPT !.adjList = [id \in NodeIds(nds) |-> <<>>],
               !.inDegree = [id \in NodeIds(nds) |-> 0],
               !.e = 1,
               !.pc = "build"]

\* an edges.forEach callback that fills adjList and forgets the in-degree
BuildEdgeNoInDegree(st, edge) ==
    IF edge.source \notin DOMAIN st.adjList
    THEN [st EXCEPT !.pc = "threw"]
    ELSE [st EXCEPT !.adjList[edge.source] = Append(@, edge.target),
                    !.e = @ + 1]

\* an edges.forEach callback that does not push a target the out-list holds
\* already, while still counting the edge in the in-degree
BuildEdgeDedupOutList(st, edge) ==
    IF edge.source \notin DOMAIN st.adjList
    THEN [st EXCEPT !.pc = "threw"]
    ELSE [st EXCEPT
            !.adjList[edge.source] = IF Includes(@, edge.target) THEN @
                                     ELSE Append(@, edge.target),
            !.inDegree = IF edge.target \in DOMAIN @
                         THEN [@ EXCEPT ![edge.target] = @ + 1]
                         ELSE @ @@ (edge.target :> 1),
            !.e = @ + 1]

\* one call of the edges.forEach callback; adjList[edge.source] is undefined
\* for a source that is no node id, and .push on it throws a TypeError
BuildEdge(st, edge) ==
    IF edge.source \notin DOMAIN st.adjList
    THEN [st EXCEPT !.pc = "threw"]
    ELSE [st EXCEPT
            !.adjList[edge.source] = Append(@, edge.target),
            !.inDegree = IF edge.target \in DOMAIN @
                         THEN [@ EXCEPT ![edge.target] = @ + 1]
                         ELSE @ @@ (edge.target :> 1),
            !.e = @ + 1]

\* a seeding that stops at the first node of in-degree 0 (find, not filter)
SeedFirstZeroNode(st, nds) ==
    LET zero == SelectSeq(nds, LAMBDA node : st.inDegree[node.id] = 0)
    IN  [st EXCEPT !.queue = IF Len(zero) > 0 THEN << zero[1].id >> ELSE <<>>,
                   !.count = 0,
                   !.pc = "loop"]

\* a seeding that leaves the filter out: const queue = nodes.map(n => n.id)
SeedEveryNode(st, nds) ==
    [st EXCEPT !.queue = [k \in 1..Len(nds) |-> nds[k].id],
               !.count = 0,
               !.pc = "loop"]

\* const queue = nodes.filter(node => inDegree[node.id] === 0).map(n => n.id)
Seed(st, nds) ==
    LET zero == SelectSeq(nds, LAMBDA node : st.inDegree[node.id] = 0)
    IN  [st EXCEPT !.queue = [k \in 1..Len(zero) |-> zero[k].id],
                   !.count = 0,
                   !.pc = "loop"]

\* adjList[current].forEach(neighbor => { inDegree[neighbor]--; ... }) from
\* the k-th neighbour on
RECURSIVE Relax(_, _, _)
Relax(st, neighbors, k) ==
    IF k > Len(neighbors) THEN st
    ELSE LET neighbor == neighbors[k]
             dec == st.inDegree[neighbor] - 1
         IN  Relax([st EXCEPT !.inDegree[neighbor] = dec,
                              !.queue = IF dec = 0 THEN Append(@, neighbor)
                                        ELSE @],
                   neighbors, k + 1)

\* an iteration that takes the last element of the queue (queue.pop())
IterateFromBack(st) ==
    LET current == st.queue[Len(st.queue)]
        popped == [st EXCEPT !.queue = SubSeq(@, 1, Len(@) - 1), !.count = @ + 1,
                             !.order = Append(@, current)]
    IN  IF current \notin DOMAIN st.adjList
        THEN [popped EXCEPT !.pc = "threw"]
        ELSE Relax(popped, st.adjList[current], 1)

\* one iteration of while (queue.length > 0); adjList[current] is undefined
\* for a current that is no node id, and .forEach on it throws a TypeError
Iterate(st) ==
    LET current == Head(st.queue)
        shifted == [st EXCEPT !.queue = Tail(@), !.count = @ + 1,
                              !.order = Append(@, current)]
    IN  IF current \notin DOMAIN st.adjList
        THEN [shifted EXCEPT !.pc = "threw"]
        ELSE Relax(shifted, st.adjList[current], 1)

\* return count === nodes.length
Return(st, nds) ==
    [st EXCEPT !.result = (st.count = Len(nds)), !.pc = "done"]

isDAGStep(st, nds, eds) ==
    CASE st.pc = "init" -> Initialize(st, nds)
      [] st.pc = "build" -> IF st.e <= Len(eds) THEN BuildEdge(st, eds[st.e])
                            ELSE Seed(st, nds)
      [] st.pc = "loop" -> IF Len(st.queue) > 0 THEN Iterate(st)
                           ELSE Return(st, nds)
      [] OTHER -> st

Finished(st) == st.pc \in {"done", "threw"}

RECURSIVE RunToEnd(_, _, _)
RunToEnd(st, nds, eds) ==
    IF Finished(st) THEN st ELSE RunToEnd(isDAGStep(st, nds, eds), nds, eds)

\* isDAG(nodes, edges): threw = a TypeError left the function, else value
isDAG(nds, eds) ==
    LET final == RunToEnd(StartRun, nds, eds)
    IN  [threw |-> final.pc = "threw",
         value |-> final.pc = "done" /\ final.result]

\* the catch block of submitPipeline
LocalFallback(nds, eds) ==
    LET verdict == isDAG(nds, eds)
    IN  [threw |-> verdict.threw,
         num_nodes |-> Len(nds),
         num_edges |-> Len(eds),
         is_dag |-> verdict.value]

-----------------------------------------------------------------------------
(* README, Algorithm 1: the backend's is_dag (Python), on the same locals *)

\* one pass of `for edge in edges`: a dict lookup of a key that is not there
\* raises KeyError, for adjacency_list[edge.source] and for
\* in_degree[edge.target] alike
is_dagBuildEdge(st, edge) ==
    IF edge.source \notin DOMAIN st.adjList \/ edge.target \notin DOMAIN st.inDegree
    THEN [st EXCEPT !.pc = "threw"]
    ELSE [st EXCEPT !.adjList[edge.source] = Append(@, edge.target),
                    !.inDegree[edge.target] = @ + 1,
                    !.e = @ + 1]

\* the loops of is_dag: initialisation, queue comprehension, while queue and
\* return processed == len(nodes) are those of isDAG statement by statement
is_dagStep(st, nds, eds) ==
    CASE st.pc = "init" -> Initialize(st, nds)
      [] st.pc = "build" -> IF st.e <= Len(eds) THEN is_dagBuildEdge(st, eds[st.e])
                            ELSE Seed(st, nds)
      [] st.pc = "loop" -> IF Len(st.queue) > 0 THEN Iterate(st)
                           ELSE Return(st, nds)
      [] OTHER -> st

RECURSIVE is_dagRunToEnd(_, _, _)
is_dagRunToEnd(st, nds, eds) ==
    IF Finished(st) THEN st ELSE is_dagRunToEnd(is_dagStep(st, nds, eds), nds, eds)

\* is_dag(nodes, edges): threw = a KeyError left the function, else value
is_dag(nds, eds) ==
    LET final == is_dagRunToEnd(StartRun, nds, eds)
    IN  [threw |-> final.pc = "threw",
         value |-> final.pc = "done" /\ final.result]

-----------------------------------------------------------------------------
(* App.js: the editor state *)

\* 'Enter text with {{variables}}'
InitialText ==
    <<"E","n","t","e","r"," ","t","e","x","t"," ","w","i","t","h"," ",
      "{","{","v","a","r","i","a","b","l","e","s","}","}">>

\* texts a user may leave in the textarea of a text node
SampleTexts ==
    { <<>>,
      <<"{","{","a","}","}","{","{"," ","b"," ","}","}">>,
      <<"{","{","b","}","}">> }

\* A node of the nodes array together with the local state of the component
\* mounted for it: text and variables are TextNode's useState cells and
\* effectPending says that the [text] effect has not yet run for this text.
\* position is left out (nothing reads it).
Node(id, type, text) ==
    [id |-> id, type |-> type, selected |-> FALSE,
     text |-> text, variables |-> <<>>, effectPending |-> (type = "text")]

initialNodes ==
    << Node(<<"1">>, "input", <<>>),
       Node(<<"2">>, "text", InitialText),
       Node(<<"3">>, "output", <<>>) >>

initialEdges == <<>>

\* React runs the passive effects of a commit before the next event handler
EffectsFlushed == \A k \in 1..Len(nodes) : ~nodes[k].effectPending

NumSelected ==
    Cardinality({k \in 1..Len(nodes) : nodes[k].selected})
    + Cardinality({k \in 1..Len(edges) : edges[k].selected})

\* one more user gesture is handled
Gesture ==
    /\ EffectsFlushed
    /\ events < MaxEvents
    /\ events' = events + 1

\* the values Date.now() may return now: the clock does not run backwards,
\* and two reads may fall into the same millisecond
Now == clock..(ClockStart + MaxTicks)

\* addNode(type) at time now: id is `${Date.now()}`, data.text is '' for a
\* text node
newNode(type, now) == Node(ToDigits(now), type, <<>>)

addNode(type, now) ==
    /\ Gesture
    /\ Len(nodes) < MaxNodes
    /\ nodes' = Append(nodes, newNode(type, now))
    /\ clock' = now
    /\ issued' = Append(issued, newNode(type, now).id)
    /\ UNCHANGED <<edges, run, isSubmitting, call>>

\* the first useEffect of TextNode, run for the node at position i
ExtractEffect(i) ==
    /\ nodes[i].effectPending
    /\ nodes' = [nodes EXCEPT ![i].variables = ExtractVariables(nodes[i].text),
                              ![i].effectPending = FALSE]
    /\ UNCHANGED <<edges, clock, events, issued, run, isSubmitting, call>>

\* handleTextChange: setText(newText); App passes no data.onChange.  The
\* effect depends on [text], so it is scheduled when the text differs.
handleTextChange(i, newText) ==
    /\ Gesture
    /\ nodes[i].type = "text"
    /\ nodes' = [nodes EXCEPT ![i].text = newText,
                              ![i].effectPending = (newText # nodes[i].text)]
    /\ UNCHANGED <<edges, clock, issued, run, isSubmitting, call>>

\* onNodesChange / onEdgesChange with a select change for one element
SelectNode(i, sel) ==
    /\ Gesture
    /\ nodes[i].selected # sel
    /\ sel => NumSelected < MaxSelected
    /\ nodes' = [nodes EXCEPT ![i].selected = sel]
    /\ UNCHANGED <<edges, clock, issued, run, isSubmitting, call>>

SelectEdge(j, sel) ==
    /\ Gesture
    /\ edges[j].selected # sel
    /\ sel => NumSelected < MaxSelected
    /\ edges' = [edges EXCEPT ![j].selected = sel]
    /\ UNCHANGED <<nodes, clock, issued, run, isSubmitting, call>>

\* an update that cuts the list at its first selected node
RemoveFromFirstSelected(nds) ==
    LET sel == {k \in 1..Len(nds) : nds[k].selected}
    IN  IF sel = {} THEN nds ELSE SubSeq(nds, 1, Min(sel) - 1)

\* handleKeyDown's two functional updates
RemoveSelectedNodes(nds) == SelectSeq(nds, LAMBDA n : ~n.selected)
RemoveSelectedEdges(eds) == SelectSeq(eds, LAMBDA e2 : ~e2.selected)

handleKeyDown(key) ==
    LET hasSelectedNodes == \E k \in 1..Len(nodes) : nodes[k].selected
        hasSelectedEdges == \E k \in 1..Len(edges) : edges[k].selected
    IN  /\ IF key = "Delete"
           THEN /\ Gesture
                /\ nodes' = IF hasSelectedNodes THEN RemoveSelectedNodes(nodes)
                            ELSE nodes
                /\ edges' = IF hasSelectedEdges THEN RemoveSelectedEdges(edges)
                            ELSE edges
           ELSE /\ EffectsFlushed
                /\ UNCHANGED <<nodes, edges, events>>
        /\ UNCHANGED <<clock, issued, run, isSubmitting, call>>

\* the connection ReactFlow hands to onConnect when the user drags from the
\* source handle sh of the node at position s to the target handle th of the
\* node at position t
Connection(s, sh, t, th) ==
    [source |-> nodes[s].id, sourceHandle |-> sh,
     target |-> nodes[t].id, targetHandle |-> th]

\* reactflow's addEdge: an edge equal in source, target and both handles is
\* not added twice; otherwise the edge is appended (its generated id and
\* animated: true are left out)
connectionExists(edge, eds) ==
    \E k \in 1..Len(eds) :
        /\ eds[k].source = edge.source
        /\ eds[k].target = edge.target
        /\ eds[k].sourceHandle = edge.sourceHandle
        /\ eds[k].targetHandle = edge.targetHandle

addEdge(params, eds) ==
    IF connectionExists(params, eds) THEN eds
    ELSE Append(eds, [source |-> params.source,
                      sourceHandle |-> params.sourceHandle,
                      target |-> params.target,
                      targetHandle |-> params.targetHandle,
                      selected |-> FALSE])

\* onConnect(params): setEdges(eds => addEdge({...params, animated: true}, eds))
onConnect(params) ==
    /\ Gesture
    /\ Len(edges) < MaxEdges
    /\ edges' = addEdge(params, edges)
    /\ UNCHANGED <<nodes, clock, issued, run, isSubmitting, call>>

\* the ids of the handles of one type that the node at position k renders
HandleIdSet(k, type) ==
    LET hs == HandlesOfType(nodes[k], type)
    IN  {hs[m].id : m \in 1..Len(hs)}

\* every connection the rendered handles offer (ReactFlow's strict connection
\* mode: from a source handle to a target handle, of any two nodes)
ConnectRequests ==
    UNION { { Connection(s, sh, t, th) :
                sh \in HandleIdSet(s, "source"), th \in HandleIdSet(t, "target") } :
            s \in 1..Len(nodes), t \in 1..Len(nodes) }

\* what fetch and response.json() can do to one request: fetch rejects, the
\* response is not ok, the body is no JSON, or the response is ok and its
\* body parses to a result
NoResult == [num_nodes |-> 0, num_edges |-> 0, is_dag |-> FALSE]

Responses(body) ==
    { [kind |-> k, result |-> NoResult] : k \in {"rejects", "notOk", "badBody"} }
    \cup { [kind |-> "ok",
            result |-> [num_nodes |-> Len(body.nodes),
                        num_edges |-> Len(body.edges),
                        is_dag |-> b]] : b \in BOOLEAN }

\* no handleSubmit run so far
IdleCall ==
    [pc |-> "idle", nodes |-> <<>>, edges |-> <<>>,
     body |-> [nodes |-> <<>>, edges |-> <<>>],
     response |-> [kind |-> "none", result |-> NoResult],
     via |-> "none", result |-> NoResult,
     clickedAt |-> 0, settledAt |-> 0]

\* handleSubmit up to its await: setIsSubmitting(true), then submitPipeline
\* is entered with the nodes and edges of the render whose button was
\* clicked and runs up to `await fetch(...)`, the body already serialised.
\* The button is disabled while isSubmitting is true.
handleSubmit ==
    /\ Gesture
    /\ ~isSubmitting
    /\ isSubmitting' = TRUE
    /\ call' = [IdleCall EXCEPT !.pc = "awaiting",
                                !.nodes = nodes,
                                !.edges = edges,
                                !.body = [nodes |-> nodes, edges |-> edges],
                                !.clickedAt = events + 1]
    /\ UNCHANGED <<nodes, edges, clock, issued, run>>

\* a continuation that computes the fallback from the App state current when
\* the request settles, not from the arguments of the call
submitPipelineSettlesOnLiveState(response) ==
    /\ call.pc = "awaiting"
    /\ response \in Responses(call.body)
    /\ IF response.kind = "ok"
       THEN /\ call' = [call EXCEPT !.pc = "returned", !.response = response,
                                    !.via = "backend", !.result = response.result,
                                    !.settledAt = events]
            /\ isSubmitting' = FALSE
       ELSE LET local == LocalFallback(nodes, edges)
            IN  IF local.threw
                THEN /\ call' = [call EXCEPT !.pc = "rejected", !.response = response,
                                             !.settledAt = events]
                     /\ UNCHANGED isSubmitting
                ELSE /\ call' = [call EXCEPT
                                    !.pc = "returned", !.response = response,
                                    !.via = "local",
                                    !.result = [num_nodes |-> local.num_nodes,
                                                num_edges |-> local.num_edges,
                                                is_dag |-> local.is_dag],
                                    !.settledAt = events]
                     /\ isSubmitting' = FALSE
    /\ UNCHANGED <<nodes, edges, clock, events, issued, run>>

\* the rest of submitPipeline and of handleSubmit once the request settles.
\* An ok response whose body parses is returned as it is.  Everything else
\* enters the catch block, which computes the result from the arguments of
\* the call; an error raised there leaves submitPipeline, the await in
\* handleSubmit rethrows it, and setIsSubmitting(false) is not reached.
submitPipelineSettles(response) ==
    /\ call.pc = "awaiting"
    /\ response \in Responses(call.body)
    /\ IF response.kind = "ok"
       THEN /\ call' = [call EXCEPT !.pc = "returned", !.response = response,
                                    !.via = "backend", !.result = response.result,
                                    !.settledAt = events]
            /\ isSubmitting' = FALSE
       ELSE LET local == LocalFallback(call.nodes, call.edges)
            IN  IF local.threw
                THEN /\ call' = [call EXCEPT !.pc = "rejected", !.response = response,
                                             !.settledAt = events]
                     /\ UNCHANGED isSubmitting
                ELSE /\ call' = [call EXCEPT
                                    !.pc = "returned", !.response = response,
                                    !.via = "local",
                                    !.result = [num_nodes |-> local.num_nodes,
                                                num_edges |-> local.num_edges,
                                                is_dag |-> local.is_dag],
                                    !.settledAt = events]
                     /\ isSubmitting' = FALSE
    /\ UNCHANGED <<nodes, edges, clock, events, issued, run>>

Init ==
    /\ nodes = initialNodes
    /\ edges = initialEdges
    /\ clock = ClockStart
    /\ events = 0
    /\ issued = [k \in 1..Len(initialNodes) |-> initialNodes[k].id]
    /\ run = IdleRun
    /\ isSubmitting = FALSE
    /\ call = IdleCall

Next ==
    \/ \E type \in nodeTypes, now \in Now : addNode(type, now)
    \/ \E i \in 1..Len(nodes) : ExtractEffect(i)
    \/ \E i \in 1..Len(nodes), newText \in SampleTexts : handleTextChange(i, newText)
    \/ \E i \in 1..Len(nodes), sel \in BOOLEAN : SelectNode(i, sel)
    \/ \E j \in 1..Len(edges), sel \in BOOLEAN : SelectEdge(j, sel)
    \/ \E key \in {"Delete", "Enter"} : handleKeyDown(key)
    \/ \E params \in ConnectRequests : onConnect(params)

Spec == Init /\ [][Next]_vars

-----------------------------------------------------------------------------
(* Submission: the editor together with handleSubmit and submitPipeline     *)

\* the kinds the add buttons of this specification offer
SubmitNodeTypes == {"input", "text"}

NextSubmit ==
    \/ \E type \in SubmitNodeTypes, now \in Now : addNode(type, now)
    \/ \E i \in 1..Len(nodes) : ExtractEffect(i)
    \/ \E i \in 1..Len(nodes), sel \in BOOLEAN : SelectNode(i, sel)
    \/ handleKeyDown("Delete")
    \/ \E params \in ConnectRequests : onConnect(params)
    \/ handleSubmit
    \/ \E response \in Responses(call.body) : submitPipelineSettles(response)

SpecSubmit == Init /\ [][NextSubmit]_vars

-----------------------------------------------------------------------------
(* isDAG as a function: one call on any snapshot with distinct node ids and *)
(* edges between listed nodes                                               *)

\* a list of n nodes with the ids '1'..'n'; isDAG reads nothing but the ids,
\* so every list of n distinct ids is this one up to renaming
DagNodes(n) == [k \in 1..n |-> Node(ToDigits(k), "llm", <<>>)]

DagEdge(u, v) ==
    [source |-> ToDigits(u), sourceHandle |-> ToDigits(u) \o Dash \o StrOutput,
     target |-> ToDigits(v), targetHandle |-> ToDigits(v) \o Dash \o StrInput,
     selected |-> FALSE]

\* every edge list of at most MaxDagEdges edges over the nodes '1'..'n':
\* self-loops, parallel edges and isolated nodes included
DagEdgeLists(n) ==
    UNION { [1..m -> {DagEdge(u, v) : u \in 1..n, v \in 1..n}] : m \in 0..MaxDagEdges }

InitDag ==
    /\ \E n \in 0..MaxDagNodes :
          /\ nodes = DagNodes(n)
          /\ edges \in DagEdgeLists(n)
    /\ clock = ClockStart
    /\ events = 0
    /\ issued = <<>>
    /\ run = StartRun
    /\ isSubmitting = FALSE
    /\ call = IdleCall

\* a call whose queue is the nodes array itself, so that every shift of the
\* while loop also removes the first node of the caller's list
isDAGRunShiftingNodes ==
    /\ run.pc \in {"init", "build", "loop"}
    /\ run' = isDAGStep(run, nodes, edges)
    /\ nodes' = IF run.pc = "loop" /\ Len(run.queue) > 0 /\ Len(nodes) > 0
                THEN Tail(nodes) ELSE nodes
    /\ UNCHANGED <<edges, clock, events, issued, isSubmitting, call>>

\* the next step of the call isDAG(nodes, edges)
isDAGRun ==
    /\ run.pc \in {"init", "build", "loop"}
    /\ run' = isDAGStep(run, nodes, edges)
    /\ UNCHANGED <<nodes, edges, clock, events, issued, isSubmitting, call>>

NextDag == isDAGRun

SpecDag == InitDag /\ [][NextDag]_vars

-----------------------------------------------------------------------------
(* isDAG on every order of the node list and of the edge list               *)

MaxOrdNodes == 3
MaxOrdEdges == 3

\* the orders in which n nodes can stand in the nodes array
Perms(n) == {p \in [1..n -> 1..n] : \A a, b \in 1..n : a # b => p[a] # p[b]}

OrdEdgeLists(n) ==
    UNION { [1..m -> {DagEdge(u, v) : u \in 1..n, v \in 1..n}] : m \in 0..MaxOrdEdges }

InitDagOrders ==
    /\ \E n \in 0..MaxOrdNodes :
          /\ \E p \in Perms(n) : nodes = [k \in 1..n |-> DagNodes(n)[p[k]]]
          /\ edges \in OrdEdgeLists(n)
    /\ clock = ClockStart
    /\ events = 0
    /\ issued = <<>>
    /\ run = StartRun
    /\ isSubmitting = FALSE
    /\ call = IdleCall

NextDagOrders == isDAGRun

SpecDagOrders == InitDagOrders /\ [][NextDagOrders]_vars

-----------------------------------------------------------------------------
(* handleKeyDown on any selection: a graph with any elements selected      *)

MaxDelNodes == 3
MaxDelEdges == 2

\* the keys pressed in this specification
Keys == {"Delete", "Enter", "Backspace"}

\* seq with the selected flag of its k-th entry set to flags[k]
WithSelection(seq, flags) == [k \in 1..Len(seq) |-> [seq[k] EXCEPT !.selected = flags[k]]]

InitDelete ==
    /\ \E n \in 0..MaxDelNodes :
          /\ \E flags \in [1..n -> BOOLEAN] : nodes = WithSelection(DagNodes(n), flags)
          /\ \E m \in 0..MaxDelEdges :
                \E list \in [1..m -> {DagEdge(u, v) : u \in 1..n, v \in 1..n}],
                   flags \in [1..m -> BOOLEAN] :
                    edges = WithSelection(list, flags)
    /\ clock = ClockStart
    /\ events = 0
    /\ issued = [k \in 1..Len(nodes) |-> nodes[k].id]
    /\ run = IdleRun
    /\ isSubmitting = FALSE
    /\ call = IdleCall

NextDelete == \E key \in Keys : handleKeyDown(key)

SpecDelete == InitDelete /\ [][NextDelete]_vars

-----------------------------------------------------------------------------
(* TextNode as a function of its text: one mounted text node               *)

MaxPieces == 3
\* longest content put between one pair of double braces
MaxContent == 4

TextPieces ==
    { <<"{","{","a","}","}">>,
      <<"{","{"," ","b"," ","}","}">>,
      <<"{","{","o","u","t","p","u","t","}","}">>,
      <<"{","{","i","n","p","u","t","}","}">>,
      <<"{","{","1","x","}","}">>,
      <<"{","{","a","-","b","}","}">>,
      <<"x"," ">>,
      <<"{">> }

RECURSIVE Concat(_)
Concat(pieces) ==
    IF pieces = <<>> THEN <<>> ELSE Head(pieces) \o Concat(Tail(pieces))

\* the texts made of at most MaxPieces pieces
Texts == { Concat(ps) : ps \in UNION { [1..m -> TextPieces] : m \in 0..MaxPieces } }

\* the characters of a brace pair's content: a letter, a digit, a hyphen, a
\* blank and a dollar sign
ContentChars == {"a", "1", "-", " ", "$"}

\* '{{' + content + '}}' for every content of at most MaxContent characters
BracedTexts ==
    { <<"{", "{">> \o content \o <<"}", "}">> :
        content \in UNION { [1..m -> ContentChars] : m \in 0..MaxContent } }

InitText ==
    /\ \E text \in Texts \cup BracedTexts : nodes = << Node(<<"2">>, "text", text) >>
    /\ edges = <<>>
    /\ clock = ClockStart
    /\ events = 0
    /\ issued = << <<"2">> >>
    /\ run = IdleRun
    /\ isSubmitting = FALSE
    /\ call = IdleCall

NextText ==
    \/ \E i \in 1..Len(nodes) : ExtractEffect(i)
    \/ \E i \in 1..Len(nodes), newText \in SampleTexts : handleTextChange(i, newText)

SpecText == InitText /\ [][NextText]_vars

-----------------------------------------------------------------------------
(* Graph notions used to state the properties *)

IdsDistinct(nds) ==
    \A i, j \in 1..Len(nds) : i # j => nds[i].id # nds[j].id

EdgesNameNodes(nds, eds) ==
    \A k \in 1..Len(eds) :
        eds[k].source \in NodeIds(nds) /\ eds[k].target \in NodeIds(nds)

ValidSnapshot(nds, eds) == IdsDistinct(nds) /\ EdgesNameNodes(nds, eds)

Successors(eds, v) ==
    {eds[k].target : k \in {j \in 1..Len(eds) : eds[j].source = v}}

\* every id reachable from S along edges, S included
RECURSIVE ReachableFrom(_, _)
ReachableFrom(eds, S) ==
    LET T == S \cup UNION {Successors(eds, v) : v \in S}
    IN  IF T = S THEN S ELSE ReachableFrom(eds, T)

\* exhaustive search: some edge u -> v has u reachable from v
HasCycle(eds) ==
    \E k \in 1..Len(eds) : eds[k].source \in ReachableFrom(eds, {eds[k].target})

\* the edges both of whose ends are nodes of the list
LiveEdges(nds, eds) ==
    SelectSeq(eds, LAMBDA e2 : e2.source \in NodeIds(nds) /\ e2.target \in NodeIds(nds))

\* Well-formed occurrences {{name}}, found from the name outwards (not by a
\* scan from the left): the name starts at b, runs to the end of its
\* maximal run of name characters, and has, blanks aside, '{{' before it and
\* '}}' after it.
NameFirst == Lower \cup Upper \cup {"_", "$"}
NameRest == NameFirst \cup Digit
Blank == {" ", "\t", "\n"}

\* the last index j <= i at which text is outside the class (0 if none)
SkipBack(text, i, Class) ==
    CHOOSE j \in 0..i :
        /\ \A k \in (j + 1)..i : text[k] \in Class
        /\ j = 0 \/ text[j] \notin Class

OccurrenceAt(text, b) ==
    LET n == Len(text)
        p == SkipBack(text, b - 1, Blank)
        c == SkipClass(text, b, NameRest)
        q == SkipClass(text, c, Blank)
    IN  /\ text[b] \in NameFirst
        /\ p >= 2
        /\ text[p] = "{"
        /\ text[p - 1] = "{"
        /\ q + 1 <= n
        /\ text[q] = "}"
        /\ text[q + 1] = "}"

OccurrenceName(text, b) == SubSeq(text, b, SkipClass(text, b, NameRest) - 1)

Occurrences(text) == {b \in 1..Len(text) : OccurrenceAt(text, b)}

FirstOccurrence(text, name) ==
    Min({b \in Occurrences(text) : OccurrenceName(text, b) = name})

WellFormed(name) ==
    /\ Len(name) >= 1
    /\ name[1] \in NameFirst
    /\ \A k \in 2..Len(name) : name[k] \in NameRest

\* text is '{{' + content + '}}' with no brace in content
IsBracePair(text) ==
    /\ Len(text) >= 4
    /\ SubSeq(text, 1, 2) = <<"{", "{">>
    /\ SubSeq(text, Len(text) - 1, Len(text)) = <<"}", "}">>
    /\ \A k \in 3..(Len(text) - 2) : text[k] \notin {"{", "}"}

Content(text) == SubSeq(text, 3, Len(text) - 2)

\* s without its leading and trailing blanks
Strip(s) ==
    LET a == SkipClass(s, 1, Blank)
        z == SkipBack(s, Len(s), Blank)
    IN  IF a > z THEN <<>> ELSE SubSeq(s, a, z)

\* '{{a}} {{b}} {{a}}'
TextABA ==
    <<"{","{","a","}","}"," ","{","{","b","}","}"," ","{","{","a","}","}">>

\* '{{ spaced }}'
TextSpaced == <<"{","{"," ","s","p","a","c","e","d"," ","}","}">>

\* '{{123invalid}} {{my-var}} {{my var}}' (README, Test 5.3)
TextInvalid ==
    <<"{","{","1","2","3","i","n","v","a","l","i","d","}","}"," ",
      "{","{","m","y","-","v","a","r","}","}"," ",
      "{","{","m","y"," ","v","a","r","}","}">>

Chain3 == <<DagEdge(1, 2), DagEdge(2, 3)>>
Ring3 == <<DagEdge(1, 2), DagEdge(2, 3), DagEdge(3, 1)>>

-----------------------------------------------------------------------------
(* Properties *)

\* C1: on every snapshot with pairwise distinct node ids and edges between
\* listed nodes, the call isDAG(nodes, edges) returns (never throws) and its
\* result is true exactly when the exhaustive search finds no directed cycle;
\* the chain 1->2->3 gives true and the ring 1->2->3->1 gives false.
C1_isDAGIffAcyclic ==
    /\ (ValidSnapshot(nodes, edges) /\ Finished(run)) =>
          /\ run.pc = "done"
          /\ run.result = ~HasCycle(edges)
    /\ isDAG(DagNodes(3), Chain3) = [threw |-> FALSE, value |-> TRUE]
    /\ isDAG(DagNodes(3), Ring3) = [threw |-> FALSE, value |-> FALSE]

\* a finished call on the three-node ring, which answered false
C1_Witness ==
    /\ run.pc = "done"
    /\ nodes = DagNodes(3)
    /\ edges = Ring3
    /\ run.result = FALSE

\* C2: in every reachable editor state, isDAG(nodes, edges) and the local
\* fallback of submitPipeline return a result and raise no error.
C2_LocalValidationNeverFails ==
    /\ ~isDAG(nodes, edges).threw
    /\ ~LocalFallback(nodes, edges).threw

\* C3: in every reachable state, the source and the target of every edge are
\* ids of nodes currently in the node list (removing a node removes its edges).
C3_NoDanglingEdges == EdgesNameNodes(nodes, edges)

\* C4: when port derivation runs for a text node whose text has changed, the
\* edges whose target is a port of that node that is no longer rendered are
\* removed from the edge list, and every other edge stays, in order.
C4_ContentUpdateCascade ==
    [][ \A i \in 1..Len(nodes) :
          ( /\ nodes[i].type = "text"
            /\ nodes[i].effectPending
            /\ IdsDistinct(nodes)
            /\ nodes' = [nodes EXCEPT ![i].variables = ExtractVariables(nodes[i].text),
                                      ![i].effectPending = FALSE] )
          => LET before == HandleIdSet(i, "target")
                 derived == TextNodeHandles(nodes[i].id, ExtractVariables(nodes[i].text))
                 after == {derived[m].id : m \in {n \in 1..Len(derived) :
                                                    derived[n].type = "target"}}
                 gone == before \ after
                 id == nodes[i].id
             IN  edges' = SelectSeq(edges,
                            LAMBDA e2 : ~(e2.target = id /\ e2.targetHandle \in gone))
      ]_vars

\* C5: the nodes of the list have pairwise distinct ids, and no id is handed
\* out twice (not even to a node created after the first holder was removed).
C5_IdsUniqueNeverReused ==
    /\ IdsDistinct(nodes)
    /\ \A i, j \in 1..Len(issued) : i # j => issued[i] # issued[j]

\* C6: no edge of a reachable state has the same node as source and target
\* (a connect request from a node to itself is rejected).
C6_NoSelfLoops ==
    \A k \in 1..Len(edges) : edges[k].source # edges[k].target

\* C7: a connect request between two distinct listed nodes is not refused
\* (the edge is in the list afterwards, also when it closes a cycle), and in
\* every reachable state whose listed nodes carry a directed cycle a
\* validation run returns isDag = false.
C7_CyclesAllowedAndReported ==
    /\ \A params \in ConnectRequests :
          params.source # params.target => connectionExists(params, addEdge(params, edges))
    /\ HasCycle(LiveEdges(nodes, edges)) =>
          isDAG(nodes, edges) = [threw |-> FALSE, value |-> FALSE]

\* C8: an input node renders no target handle and one source handle, an
\* output node renders one target handle and no source handle, and no edge
\* targets an input node or starts at an output node.
C8_KindRestrictedPorts ==
    /\ \A k \in 1..Len(nodes) :
          /\ nodes[k].type = "input" =>
                /\ Len(HandlesOfType(nodes[k], "target")) = 0
                /\ Len(HandlesOfType(nodes[k], "source")) = 1
          /\ nodes[k].type = "output" =>
                /\ Len(HandlesOfType(nodes[k], "target")) = 1
                /\ Len(HandlesOfType(nodes[k], "source")) = 0
    /\ \A j \in 1..Len(edges), k \in 1..Len(nodes) :
          /\ (nodes[k].type = "input" /\ IdsDistinct(nodes))
                => edges[j].target # nodes[k].id
          /\ (nodes[k].type = "output" /\ IdsDistinct(nodes))
                => edges[j].source # nodes[k].id

\* C9: a text node whose effect has run for its current text renders exactly
\* one source handle; with a non-empty extracted list it renders one target
\* handle per extracted variable, in extraction order, none of them the
\* default input handle; with an empty list it renders exactly the default
\* input handle.
C9_TextNodePorts ==
    \A k \in 1..Len(nodes) :
        (nodes[k].type = "text" /\ ~nodes[k].effectPending) =>
            LET id == nodes[k].id
                extracted == ExtractVariables(nodes[k].text)
                ins == HandlesOfType(nodes[k], "target")
                outs == HandlesOfType(nodes[k], "source")
            IN  /\ Len(outs) = 1
                /\ outs[1].id = id \o Dash \o StrOutput
                /\ IF Len(extracted) > 0
                   THEN /\ Len(ins) = Len(extracted)
                        /\ \A m \in 1..Len(ins) :
                              /\ ins[m].id = id \o Dash \o extracted[m]
                              /\ ins[m].title = TitleInputPrefix \o extracted[m]
                   ELSE /\ Len(ins) = 1
                        /\ ins[1].id = id \o Dash \o StrInput
                        /\ ins[1].title = TitleInput

\* a text node after its effect, with two variables in its text
C9_Witness ==
    \E k \in 1..Len(nodes) :
        /\ nodes[k].type = "text"
        /\ ~nodes[k].effectPending
        /\ Len(ExtractVariables(nodes[k].text)) = 2
        /\ Len(HandlesOfType(nodes[k], "target")) = 2

\* C10: the ids of the handles a text node renders for its current text are
\* pairwise distinct.
C10_PortIdsUnique ==
    \A k \in 1..Len(nodes) :
        (nodes[k].type = "text" /\ ~nodes[k].effectPending) =>
            LET hs == RenderedHandles(nodes[k])
            IN  \A a, b \in 1..Len(hs) : a # b => hs[a].id # hs[b].id

\* the id of the handle a text node renders for the variable v of its list
PortIdOf(node, v) ==
    LET k == CHOOSE m \in 1..Len(node.variables) : node.variables[m] = v
    IN  HandlesOfType(node, "target")[k].id

\* C11: the handles a text node renders once its effect has run are a function
\* of the node id and the current text alone (whatever was rendered before),
\* and a variable that is in the list before and after the effect keeps the
\* id of its handle, whatever its position and the other variables are.
C11_PortsDeterministicAndStable ==
    [][ \A i \in 1..Len(nodes) :
          ( /\ Len(nodes') = Len(nodes)
            /\ nodes[i].type = "text"
            /\ nodes[i].effectPending
            /\ ~nodes'[i].effectPending )
          => /\ nodes'[i].id = nodes[i].id
             /\ nodes'[i].text = nodes[i].text
             /\ RenderedHandles(nodes'[i])
                   = TextNodeHandles(nodes[i].id, ExtractVariables(nodes[i].text))
             /\ \A a \in 1..Len(nodes[i].variables), b \in 1..Len(nodes'[i].variables) :
                   nodes[i].variables[a] = nodes'[i].variables[b]
                   => PortIdOf(nodes[i], nodes[i].variables[a])
                        = PortIdOf(nodes'[i], nodes'[i].variables[b])
      ]_vars

\* the effect has run after an edit, and the text in the textarea is '{{b}}'
C11_Witness ==
    \E k \in 1..Len(nodes) :
        /\ nodes[k].type = "text"
        /\ ~nodes[k].effectPending
        /\ events >= 1
        /\ nodes[k].text = <<"{","{","b","}","}">>
        /\ PortIdOf(nodes[k], <<"b">>) = nodes[k].id \o Dash \o <<"b">>

\* C12: for the text of a text node whose effect has run, the variables list
\* has no repeated name, holds exactly the names of the well-formed
\* occurrences {{name}} of the text, and lists them by first occurrence;
\* '{{a}} {{b}} {{a}}' gives [a, b].
C12_DedupFirstOccurrenceOrder ==
    /\ \A k \in 1..Len(nodes) :
          (nodes[k].type = "text" /\ ~nodes[k].effectPending) =>
              LET text == nodes[k].text
                  vs == nodes[k].variables
              IN  /\ \A a, b \in 1..Len(vs) : a # b => vs[a] # vs[b]
                  /\ {vs[a] : a \in 1..Len(vs)}
                        = {OccurrenceName(text, b) : b \in Occurrences(text)}
                  /\ \A a, b \in 1..Len(vs) :
                        a < b => FirstOccurrence(text, vs[a]) < FirstOccurrence(text, vs[b])
    /\ ExtractVariables(TextABA) = << <<"a">>, <<"b">> >>

\* the effect has run on a text with a repeated name and two distinct names
C12_Witness ==
    \E k \in 1..Len(nodes) :
        /\ nodes[k].type = "text"
        /\ ~nodes[k].effectPending
        /\ Len(nodes[k].variables) = 2
        /\ Cardinality(Occurrences(nodes[k].text)) = 3

\* C13: every name in the variables list of a text node whose effect has run
\* starts with a letter, '_' or '$' and continues with letters, digits, '_'
\* or '$'; a text that is one brace pair gives the content without its outer
\* blanks when that is such a name, and nothing otherwise (leading digit,
\* hyphen, inner blank); '{{ spaced }}' gives [spaced] and the three
\* ill-formed pairs of the README give [].
C13_OnlyWellFormedNames ==
    /\ \A k \in 1..Len(nodes) :
          (nodes[k].type = "text" /\ ~nodes[k].effectPending) =>
              LET text == nodes[k].text
                  vs == nodes[k].variables
              IN  /\ \A a \in 1..Len(vs) : WellFormed(vs[a])
                  /\ IsBracePair(text) =>
                        vs = IF WellFormed(Strip(Content(text)))
                             THEN << Strip(Content(text)) >>
                             ELSE <<>>
    /\ ExtractVariables(TextSpaced) = << <<"s","p","a","c","e","d">> >>
    /\ ExtractVariables(TextInvalid) = <<>>

\* the effect has run on one brace pair whose content is not a name, and
\* left the list empty
C13_Witness ==
    \E k \in 1..Len(nodes) :
        /\ nodes[k].type = "text"
        /\ ~nodes[k].effectPending
        /\ IsBracePair(nodes[k].text)
        /\ Strip(Content(nodes[k].text)) # <<>>
        /\ ~WellFormed(Strip(Content(nodes[k].text)))
        /\ nodes[k].variables = <<>>

\* C14: on the nodes and edges of every reachable editor state, the
\* frontend's isDAG and the backend's documented is_dag either both fail or
\* both return, and then return the same verdict.
C14_LocalRemoteEquivalent == isDAG(nodes, edges) = is_dag(nodes, edges)

\* C15: once the submitPipeline call of a submission has ended: after an ok
\* response it has returned the backend's result unchanged; after a rejected
\* fetch, a response that is not ok or a body that does not parse it has
\* returned num_nodes = number of nodes, num_edges = number of edges and
\* is_dag = isDAG(nodes, edges) of the lists it was called with.
C15_FallbackResult ==
    call.pc \in {"returned", "rejected"} =>
        IF call.response.kind = "ok"
        THEN /\ call.pc = "returned"
             /\ call.via = "backend"
             /\ call.result = call.response.result
        ELSE /\ call.pc = "returned"
             /\ call.via = "local"
             /\ call.result.num_nodes = Len(call.nodes)
             /\ call.result.num_edges = Len(call.edges)
             /\ isDAG(call.nodes, call.edges)
                   = [threw |-> FALSE, value |-> call.result.is_dag]

\* C16: when the submitPipeline call of a submission has ended, whatever its
\* outcome, isSubmitting is false again (nothing else resets it, so the
\* button would stay disabled for good).
C16_LoadingStateReset ==
    call.pc \in {"returned", "rejected"} => ~isSubmitting

\* C19: the call that a click starts gets the nodes and the edges of the
\* state in which the button was clicked, and sends both; while the request
\* is pending no step changes these lists or the body sent; and a result
\* computed locally is computed from exactly these two lists.
C19_SubmissionUsesOneState ==
    [][ /\ (call.pc # "awaiting" /\ call'.pc = "awaiting") =>
              /\ call'.nodes = nodes
              /\ call'.edges = edges
              /\ call'.body = [nodes |-> nodes, edges |-> edges]
        /\ call.pc = "awaiting" =>
              /\ call'.nodes = call.nodes
              /\ call'.edges = call.edges
              /\ call'.body = call.body
              /\ (call'.pc = "returned" /\ call'.via = "local") =>
                    call'.result =
                        [num_nodes |-> Len(call.body.nodes),
                         num_edges |-> Len(call.body.edges),
                         is_dag |-> isDAG(call.body.nodes, call.body.edges).value]
      ]_vars

\* a locally computed result of a call during which gestures were handled
\* that changed the node list and the edge list
C19_Witness ==
    /\ call.pc = "returned"
    /\ call.via = "local"
    /\ call.settledAt >= call.clickedAt + 2
    /\ events = call.settledAt
    /\ Len(nodes) # Len(call.nodes)
    /\ Len(edges) # Len(call.edges)

\* C17: no step of an isDAG call changes the nodes list or the edges list it
\* was given, and when the call has ended, a second call on the lists as
\* they are then ends the same way with the same verdict.
C17_ReadOnlyIdempotent ==
    [][ run' # run =>
          /\ nodes' = nodes
          /\ edges' = edges
          /\ Finished(run') =>
                isDAG(nodes', edges')
                  = [threw |-> run'.pc = "threw",
                     value |-> run'.pc = "done" /\ run'.result]
      ]_vars

\* a call on three nodes and three edges that has returned true
C17_Witness ==
    /\ run.pc = "done"
    /\ run.result
    /\ Len(nodes) = 3
    /\ Len(edges) = 3

\* C18: in every reachable editor state (two nodes sharing an id included),
\* if isDAG(nodes, edges) returns true then the edge list has no directed
\* cycle.
C18_TrueVerdictIsSound ==
    isDAG(nodes, edges) = [threw |-> FALSE, value |-> TRUE] => ~HasCycle(edges)

\* C20: in every state, the target handles a text node renders are those
\* derived from its current text; in particular the initial text node, whose
\* text holds a variable, never renders the default input handle.
C20_ContentAndPortsAtomic ==
    \A k \in 1..Len(nodes) :
        nodes[k].type = "text" =>
            RenderedHandles(nodes[k])
              = TextNodeHandles(nodes[k].id, ExtractVariables(nodes[k].text))

\* an upper bound on the number of steps an isDAG call still has to take
StepsLeft(st, nds, eds) ==
    CASE st.pc = "init" -> Len(eds) + Len(nds) + 4
      [] st.pc = "build" -> (Len(eds) + 1 - st.e) + Len(nds) + 3
      [] st.pc = "loop" -> (Len(nds) - st.count) + 1
      [] OTHER -> 0

NoRepeat(seq) == \A a, b \in 1..Len(seq) : a # b => seq[a] # seq[b]

\* C21: in a call of isDAG on distinct node ids and edges between listed
\* nodes, every step lowers a natural-number bound on the steps left (so the
\* loop terminates), no id is put on the queue twice (the ids taken off it
\* followed by the ids on it never repeat), count never exceeds
\* nodes.length, no in-degree is negative, and the call returns true exactly
\* when count equals nodes.length at the end.
C21_KahnLoopTerminates ==
    [][ (ValidSnapshot(nodes, edges) /\ run' # run) =>
          /\ StepsLeft(run, nodes, edges) \in Nat
          /\ StepsLeft(run', nodes, edges) \in Nat
          /\ StepsLeft(run', nodes, edges) < StepsLeft(run, nodes, edges)
          /\ NoRepeat(run'.order \o run'.queue)
          /\ run'.count <= Len(nodes)
          /\ run'.count = Len(run'.order)
          /\ \A id \in DOMAIN run'.inDegree : run'.inDegree[id] >= 0
          /\ run'.pc # "threw"
          /\ run'.pc = "done" => run'.result = (run'.count = Len(nodes))
      ]_vars

\* a call on a graph with a cycle has ended after taking one node off the
\* queue and leaving two unprocessed
C21_Witness ==
    /\ run.pc = "done"
    /\ Len(nodes) = 3
    /\ run.count = 1
    /\ ~run.result
    /\ Len(edges) = 3

\* the number of edges of the list from u to v, and the number into v
Mult(eds, u, v) ==
    Cardinality({k \in 1..Len(eds) : eds[k].source = u /\ eds[k].target = v})

InCount(eds, v) == Cardinality({k \in 1..Len(eds) : eds[k].target = v})

\* how often x occurs in seq
CountIn(seq, x) == Cardinality({k \in 1..Len(seq) : seq[k] = x})

\* the sum of f over the finite set S
RECURSIVE SumOver(_, _)
SumOver(f, S) ==
    IF S = {} THEN 0
    ELSE LET x == CHOOSE y \in S : TRUE
         IN  f[x] + SumOver(f, S \ {x})

\* C22: in a call of isDAG on distinct node ids and edges between listed
\* nodes, when the build loop is over every node v has in-degree = number
\* of edges into v and every out-list of u holds v once per edge u -> v;
\* taking u off the queue lowers the in-degree of v by the number of edges
\* u -> v; from the seeding on, v is among the ids taken off or on the queue
\* exactly once if its in-degree is 0 and not at all otherwise; and the
\* fallback's num_edges is the sum of the multiplicities of all pairs.
C22_ParallelEdgesCounted ==
    [][ (ValidSnapshot(nodes, edges) /\ run' # run) =>
          LET ids == NodeIds(nodes)
          IN  /\ (run.pc = "build" /\ run'.pc = "loop") =>
                    \A u \in ids :
                        /\ run.inDegree[u] = InCount(edges, u)
                        /\ \A v \in ids :
                              CountIn(run.adjList[u], v) = Mult(edges, u, v)
              /\ (run.pc = "loop" /\ Len(run.queue) > 0) =>
                    \A v \in ids :
                        run'.inDegree[v]
                          = run.inDegree[v] - Mult(edges, Head(run.queue), v)
              /\ run'.pc \in {"loop", "done"} =>
                    \A v \in ids :
                        CountIn(run'.order \o run'.queue, v)
                          = IF run'.inDegree[v] = 0 THEN 1 ELSE 0
              /\ LocalFallback(nodes, edges).num_edges
                    = SumOver([pr \in ids \X ids |-> Mult(edges, pr[1], pr[2])],
                              ids \X ids)
      ]_vars

\* a call on two nodes joined by three parallel edges 1 -> 2 has returned
\* true after taking '1' and then '2' off the queue
C22_Witness ==
    /\ run.pc = "done"
    /\ run.result
    /\ edges = <<DagEdge(1, 2), DagEdge(1, 2), DagEdge(1, 2)>>
    /\ run.order = <<ToDigits(1), ToDigits(2)>>

\* C23: in every reachable editor state, for every edge whose source is its
\* target, the call isDAG(nodes, edges) returns false and that node's id is
\* neither taken off the queue nor left on it.
C23_SelfLoopReported ==
    LET final == RunToEnd(StartRun, nodes, edges)
    IN  \A k \in 1..Len(edges) :
            edges[k].source = edges[k].target =>
                /\ final.pc = "done"
                /\ ~final.result
                /\ ~Includes(final.order \o final.queue, edges[k].source)

\* the entries of seq at the positions in I, in the order of seq
Pick(seq, I) ==
    LET F[k \in 0..Len(seq)] ==
            IF k = 0 THEN <<>>
            ELSE IF k \in I THEN Append(F[k - 1], seq[k]) ELSE F[k - 1]
    IN  F[Len(seq)]

\* C24: the seeding step leaves on the queue exactly the ids of the nodes
\* of in-degree 0, in node-list order; every iteration takes the id at the
\* front of the queue, makes it the next id processed, and appends behind the
\* rest of the queue, in out-list order, each neighbour at the decrement
\* that brings its in-degree to 0.
C24_ProcessingOrder ==
    [][ run' # run =>
          /\ (run.pc = "build" /\ run'.pc = "loop") =>
                /\ run'.queue
                      = Pick([k \in 1..Len(nodes) |-> nodes[k].id],
                             {k \in 1..Len(nodes) : run.inDegree[nodes[k].id] = 0})
                /\ run'.order = <<>>
          /\ (run.pc = "loop" /\ Len(run.queue) > 0 /\ run'.pc # "threw") =>
                LET current == Head(run.queue)
                    nb == run.adjList[current]
                    zeroAt == {j \in 1..Len(nb) :
                                 run.inDegree[nb[j]] - CountIn(SubSeq(nb, 1, j), nb[j]) = 0}
                IN  /\ run'.order = Append(run.order, current)
                    /\ run'.queue = Tail(run.queue) \o Pick(nb, zeroAt)
          /\ (run.pc = "loop" /\ Len(run.queue) = 0) =>
                /\ run'.pc = "done"
                /\ run'.order = run.order
      ]_vars

\* a finished call on nodes 1, 2, 3 with the edge 1 -> 3: '3' was appended
\* behind the seeded '2' and processed after it
C24_Witness ==
    /\ run.pc = "done"
    /\ nodes = DagNodes(3)
    /\ edges = <<DagEdge(1, 3)>>
    /\ run.order = <<ToDigits(1), ToDigits(2), ToDigits(3)>>

\* v lies on a directed cycle of the edge list
OnCycle(eds, v) == v \in ReachableFrom(eds, Successors(eds, v))

\* the node ids that no node on a cycle reaches: a function of the set of
\* node ids and of the set of edges, not of any order
Untainted(nds, eds) ==
    {v \in NodeIds(nds) :
        ~\E c \in NodeIds(nds) : OnCycle(eds, c) /\ v \in ReachableFrom(eds, {c})}

Reverse(seq) == [k \in 1..Len(seq) |-> seq[Len(seq) + 1 - k]]

\* C25: for every order of the node list and of the edge list of a graph
\* with distinct ids and edges between listed nodes, the finished call has
\* processed exactly the nodes that no cycle reaches, its count is their
\* number and its verdict is that there is no cycle; the same count and
\* verdict come out for the node list in ascending order and for the
\* reversed edge list.
C25_VerdictOrderIndependent ==
    (ValidSnapshot(nodes, edges) /\ Finished(run)) =>
        LET sorted == RunToEnd(StartRun, DagNodes(Len(nodes)), edges)
            reversed == RunToEnd(StartRun, nodes, Reverse(edges))
        IN  /\ run.pc = "done"
            /\ {run.order[k] : k \in 1..Len(run.order)} = Untainted(nodes, edges)
            /\ run.count = Cardinality(Untainted(nodes, edges))
            /\ run.result = ~HasCycle(edges)
            /\ sorted.pc = "done" /\ sorted.count = run.count
            /\ sorted.result = run.result
            /\ reversed.pc = "done" /\ reversed.count = run.count
            /\ reversed.result = run.result

\* a finished call on the node list 3, 1, 2 with the edge 1 -> 2 and a
\* self-loop on 3: two nodes processed, verdict false
C25_Witness ==
    /\ run.pc = "done"
    /\ [k \in 1..Len(nodes) |-> nodes[k].id] = <<ToDigits(3), ToDigits(1), ToDigits(2)>>
    /\ edges = <<DagEdge(3, 3), DagEdge(1, 2)>>
    /\ run.count = 2
    /\ ~run.result

\* C26: a Delete key press leaves in the node list exactly the unselected
\* nodes and in the edge list exactly the unselected edges, each in its
\* previous order (so neither list changes when nothing is selected), and a
\* press of any other key leaves both lists as they are.
C26_DeleteRemovesSelection ==
    [][ /\ handleKeyDown("Delete") =>
              /\ nodes' = Pick(nodes, {k \in 1..Len(nodes) : ~nodes[k].selected})
              /\ edges' = Pick(edges, {k \in 1..Len(edges) : ~edges[k].selected})
              /\ (\A k \in 1..Len(nodes) : ~nodes[k].selected) => nodes' = nodes
              /\ (\A k \in 1..Len(edges) : ~edges[k].selected) => edges' = edges
        /\ \A key \in Keys \ {"Delete"} :
              handleKeyDown(key) => (nodes' = nodes /\ edges' = edges)
      ]_vars

\* after one Delete press on three nodes of which the first and the third
\* were selected: the second node is left, with an edge that was not selected
C26_Witness ==
    /\ events = 1
    /\ Len(issued) = 3
    /\ Len(nodes) = 1
    /\ nodes[1].id = ToDigits(2)
    /\ Len(edges) = 1
    /\ ~edges[1].selected

====
